---- MODULE Spec2Model ----
(***************************************************************************)
(* Model of src/worker.js: a Cloudflare Worker that proxies the URL found  *)
(* in the request path.  One request is followed from the fetch event to   *)
(* the value its handleRequest promise settles with: a Response, or a      *)
(* rejection (an unhandled fault).                                         *)
(*                                                                         *)
(* Strings are TLA+ strings; a Headers object is a function from the       *)
(* lowercase header names it holds to their values.                        *)
(***************************************************************************)
EXTENDS Integers, Sequences, FiniteSets, TLC

VARIABLES
    pc,                  \* "idle" | "awaitFetch" | "done": position in handleRequest
    request,             \* the inbound Request: method, url (host, pathname), headers
    targetUrl,           \* worker.js:52-53, the decoded target URL ("" before it is set)
    isStreamingRequest,  \* worker.js:61, the streaming verdict
    proxyHeaders,        \* worker.js:65, the outbound header set
    fetchCount,          \* number of times fetch() was called for this request
    response,            \* the target's response, when fetch resolved
    result               \* what handleRequest's promise settled with

vars == <<pc, request, targetUrl, isStreamingRequest, proxyHeaders, fetchCount,
          response, result>>

-----------------------------------------------------------------------------
(* String primitives of the JavaScript runtime.                            *)

CharAt(s, i) == SubSeq(s, i, i)

Substring(s, from) == SubSeq(s, from, Len(s))

StartsWith(s, p) == Len(s) >= Len(p) /\ SubSeq(s, 1, Len(p)) = p

EndsWith(s, p) == Len(s) >= Len(p) /\ SubSeq(s, Len(s) - Len(p) + 1, Len(s)) = p

Includes(s, p) == \E i \in 1..(Len(s) - Len(p) + 1) : SubSeq(s, i, i + Len(p) - 1) = p

\* Position of the first occurrence of p in s at or after from; 0 when none.
IndexOf(s, p, from) ==
    LET hits == {i \in from..(Len(s) - Len(p) + 1) : SubSeq(s, i, i + Len(p) - 1) = p}
    IN  IF hits = {} THEN 0 ELSE CHOOSE i \in hits : \A j \in hits : i <= j

\* Position of the last occurrence of p in s; 0 when none.
LastIndexOf(s, p) ==
    LET hits == {i \in 1..(Len(s) - Len(p) + 1) : SubSeq(s, i, i + Len(p) - 1) = p}
    IN  IF hits = {} THEN 0 ELSE CHOOSE i \in hits : \A j \in hits : i >= j

UpperLetters == "ABCDEFGHIJKLMNOPQRSTUVWXYZ"
LowerLetters == "abcdefghijklmnopqrstuvwxyz"
Digits == "0123456789"
HexDigits == "0123456789ABCDEF"

\* Printable ASCII, 0x20..0x7E, in code order: the character with code c is
\* at position c - 31.  The grave accent (0x60) cannot be written in a TLA+
\* string; its position holds a space, and no input of the model uses it.
Ascii == " !\"#$%&'()*+,-./0123456789:;<=>?@ABCDEFGHIJKLMNOPQRSTUVWXYZ[\\]^_ abcdefghijklmnopqrstuvwxyz{|}~"

CharsOf(s) == {CharAt(s, i) : i \in 1..Len(s)}

\* Character tables, each computed once from the strings above.
LowerCharTable ==
    [c \in CharsOf(Ascii) |->
        LET i == IndexOf(UpperLetters, c, 1)
        IN  IF i = 0 THEN c ELSE CharAt(LowerLetters, i)]

HexValueTable ==
    [c \in CharsOf(Ascii) |->
        LET u == IF IndexOf(LowerLetters, c, 1) = 0 THEN c
                 ELSE CharAt(UpperLetters, IndexOf(LowerLetters, c, 1))
        IN  IndexOf(HexDigits, u, 1) - 1]

CharCodeTable == [c \in CharsOf(Ascii) |-> IndexOf(Ascii, c, 1) + 31]

ToLowerChar(c) == LowerCharTable[c]

\* String.prototype.toLowerCase, character by character.
RECURSIVE ToLowerCaseFrom(_, _)
ToLowerCaseFrom(s, i) ==
    IF i > Len(s) THEN "" ELSE ToLowerChar(CharAt(s, i)) \o ToLowerCaseFrom(s, i + 1)

ToLowerCase(s) == ToLowerCaseFrom(s, 1)

\* Value of a hexadecimal digit, either case; -1 when c is none.
HexValue(c) == HexValueTable[c]

CharCode(c) == CharCodeTable[c]

FromCharCode(n) == CharAt(Ascii, n - 31)

-----------------------------------------------------------------------------
(* decodeURIComponent and encodeURIComponent (ECMA-262 19.2.6).  A result  *)
(* is [ok |-> TRUE, value |-> s], or [ok |-> FALSE, ...] for a thrown      *)
(* URIError.                                                               *)

\* The byte written as the escape %XX at position i of s; -1 when position i
\* does not start a well-formed escape.
ByteAt(s, i) ==
    IF /\ i + 2 <= Len(s)
       /\ CharAt(s, i) = "%"
       /\ HexValue(CharAt(s, i + 1)) >= 0
       /\ HexValue(CharAt(s, i + 2)) >= 0
    THEN 16 * HexValue(CharAt(s, i + 1)) + HexValue(CharAt(s, i + 2))
    ELSE -1

\* Number of continuation bytes a UTF-8 lead byte announces; -1 when the byte
\* cannot start a sequence.
Utf8Following(byte) ==
    IF byte >= 194 /\ byte <= 223 THEN 1
    ELSE IF byte >= 224 /\ byte <= 239 THEN 2
    ELSE IF byte >= 240 /\ byte <= 244 THEN 3
    ELSE -1

IsContinuation(byte) == byte >= 128 /\ byte <= 191

\* Decodes s from position i on.  An escape below 0x80 becomes its character.
\* A well-formed multi-byte sequence decodes to a character outside ASCII,
\* which a TLA+ string cannot hold: its escape text stands for it, as it does
\* for a control character.  Anything else after a "%" throws.
RECURSIVE DecodeFrom(_, _)
DecodeFrom(s, i) ==
    IF i > Len(s) THEN [ok |-> TRUE, value |-> ""]
    ELSE IF CharAt(s, i) # "%" THEN
        LET rest == DecodeFrom(s, i + 1)
        IN  IF rest.ok THEN [ok |-> TRUE, value |-> CharAt(s, i) \o rest.value]
            ELSE rest
    ELSE
        LET byte == ByteAt(s, i)
            n    == Utf8Following(byte)
            len  == IF byte < 128 THEN 3 ELSE 3 * (n + 1)
            wellFormed ==
                /\ byte >= 0
                /\ byte >= 128 =>
                      /\ n >= 1
                      /\ \A k \in 1..n : IsContinuation(ByteAt(s, i + 3 * k))
            char == IF byte >= 32 /\ byte <= 126 /\ byte # 96
                    THEN FromCharCode(byte)
                    ELSE SubSeq(s, i, i + len - 1)
        IN  IF ~wellFormed THEN [ok |-> FALSE, value |-> ""]
            ELSE LET rest == DecodeFrom(s, i + len)
                 IN  IF rest.ok THEN [ok |-> TRUE, value |-> char \o rest.value]
                     ELSE rest

decodeURIComponent(s) == DecodeFrom(s, 1)

UriUnreserved == CharsOf(LowerLetters \o UpperLetters \o Digits \o "-_.!~*'()")

HexByte(n) == CharAt(HexDigits, (n \div 16) + 1) \o CharAt(HexDigits, (n % 16) + 1)

RECURSIVE EncodeFrom(_, _)
EncodeFrom(s, i) ==
    IF i > Len(s) THEN ""
    ELSE LET c == CharAt(s, i)
         IN  (IF c \in UriUnreserved THEN c ELSE "%" \o HexByte(CharCode(c)))
             \o EncodeFrom(s, i + 1)

encodeURIComponent(s) == EncodeFrom(s, 1)

-----------------------------------------------------------------------------
(* The URL parser behind new URL(input, base) and new Request(input)       *)
(* (WHATWG URL), for URLs of the form scheme://host/path: no credentials,  *)
(* no dot segments, no characters the parser would percent-encode.         *)
(* [ok |-> FALSE, ...] is a thrown TypeError.                              *)

SpecialSchemes == {"http", "https", "ws", "wss", "ftp"}

InvalidUrl == [ok |-> FALSE, scheme |-> "", host |-> "", path |-> ""]

SchemeChars == CharsOf(LowerLetters \o UpperLetters \o Digits \o "+-.")

IsSchemeString(s) ==
    /\ s # ""
    /\ CharAt(s, 1) \in CharsOf(LowerLetters \o UpperLetters)
    /\ \A i \in 1..Len(s) : CharAt(s, i) \in SchemeChars

\* The scheme input starts with, lowercased; "" when input starts with none.
SchemeOf(input) ==
    LET colon == IndexOf(input, ":", 1)
    IN  IF colon > 1 /\ IsSchemeString(SubSeq(input, 1, colon - 1))
        THEN ToLowerCase(SubSeq(input, 1, colon - 1))
        ELSE ""

DefaultPort(scheme) ==
    CASE scheme \in {"http", "ws"}   -> ":80"
      [] scheme \in {"https", "wss"} -> ":443"
      [] scheme = "ftp"              -> ":21"
      [] OTHER                       -> ":"

\* Parses "//host[:port]/path..." under a known scheme; host keeps the port
\* unless it is the scheme's default.
ParseAuthority(scheme, rest) ==
    LET slash == IndexOf(rest, "/", 3)
        auth  == IF slash = 0 THEN Substring(rest, 3) ELSE SubSeq(rest, 3, slash - 1)
        host  == IF EndsWith(auth, DefaultPort(scheme))
                 THEN SubSeq(auth, 1, Len(auth) - Len(DefaultPort(scheme)))
                 ELSE auth
        path  == IF slash = 0 THEN "" ELSE Substring(rest, slash)
        special == scheme \in SpecialSchemes
    IN  IF \/ ~StartsWith(rest, "//")
           \/ Includes(host, " ")
           \/ (special /\ host = "")
        THEN InvalidUrl
        ELSE [ok     |-> TRUE,
              scheme |-> scheme,
              host   |-> IF special THEN ToLowerCase(host) ELSE host,
              path   |-> IF special /\ path = "" THEN "/" ELSE path]

ParseAbsoluteUrl(input) ==
    LET scheme == SchemeOf(input)
    IN  IF scheme = "" THEN InvalidUrl
        ELSE ParseAuthority(scheme, Substring(input, Len(scheme) + 2))

\* The path of u up to its query or fragment.
PathOnly(path) ==
    LET q == IndexOf(path, "?", 1)
        f == IndexOf(path, "#", 1)
        cut == IF q = 0 THEN f ELSE IF f = 0 THEN q ELSE IF q < f THEN q ELSE f
    IN  IF cut = 0 THEN path ELSE SubSeq(path, 1, cut - 1)

\* URL.prototype.host: hostname, and ":port" when the port is not the default.
UrlHost(u) == u.host

\* URL.prototype.hostname: the host without its port.
UrlHostname(u) ==
    LET colon == IndexOf(u.host, ":", 1)
    IN  IF colon = 0 THEN u.host ELSE SubSeq(u.host, 1, colon - 1)

\* URL.prototype.pathname (the inbound URLs of the model carry no query).
UrlPathname(u) == PathOnly(u.path)

\* URL.prototype.toString(): the serialized href.
UrlToString(u) == u.scheme \o "://" \o u.host \o u.path

\* new URL(input, base): input resolved against the absolute URL string base.
ResolveUrl(input, base) ==
    LET b == ParseAbsoluteUrl(base)
        dir == SubSeq(PathOnly(b.path), 1, LastIndexOf(PathOnly(b.path), "/"))
    IN  IF SchemeOf(input) # "" THEN ParseAbsoluteUrl(input)
        ELSE IF ~b.ok THEN InvalidUrl
        ELSE IF StartsWith(input, "//") THEN ParseAuthority(b.scheme, input)
        ELSE IF StartsWith(input, "/") THEN [b EXCEPT !.path = input]
        ELSE IF StartsWith(input, "?") THEN [b EXCEPT !.path = PathOnly(b.path) \o input]
        ELSE IF StartsWith(input, "#") THEN
            [b EXCEPT !.path =
                (IF IndexOf(b.path, "#", 1) = 0 THEN b.path
                 ELSE SubSeq(b.path, 1, IndexOf(b.path, "#", 1) - 1)) \o input]
        ELSE [b EXCEPT !.path = (IF dir = "" THEN "/" ELSE dir) \o input]

-----------------------------------------------------------------------------
(* The Headers class (Fetch standard): names are case-insensitive and kept *)
(* lowercase; set replaces, append joins with ", ".                         *)

\* What Headers.get returns for a name the object does not hold.  No header
\* value of the model is this string.
Null == "<null>"

EmptyHeaders == [n \in {} |-> ""]

HeadersHas(h, name) == ToLowerCase(name) \in DOMAIN h

HeadersGet(h, name) ==
    LET key == ToLowerCase(name)
    IN  IF key \in DOMAIN h THEN h[key] ELSE Null

HeadersSet(h, name, value) ==
    LET key == ToLowerCase(name)
    IN  [n \in DOMAIN h \cup {key} |-> IF n = key THEN value ELSE h[n]]

HeadersAppend(h, name, value) ==
    LET key == ToLowerCase(name)
    IN  IF key \in DOMAIN h
        THEN [h EXCEPT ![key] = h[key] \o ", " \o value]
        ELSE [n \in DOMAIN h \cup {key} |-> IF n = key THEN value ELSE h[n]]

\* new Headers(init) for a list of <<name, value>> pairs, in order.
RECURSIVE HeadersFrom(_)
HeadersFrom(pairs) ==
    IF pairs = <<>> THEN EmptyHeaders
    ELSE LET last == pairs[Len(pairs)]
         IN  HeadersAppend(HeadersFrom(SubSeq(pairs, 1, Len(pairs) - 1)), last[1], last[2])

\* JavaScript truthiness of a string-or-null value.
Truthy(v) == v # Null /\ v # ""

\* new Response(body, {status, headers}).
Response(status, headers, body) == [status |-> status, headers |-> headers, body |-> body]

-----------------------------------------------------------------------------
(* Global configuration, worker.js:8-40.                                   *)

DEFAULT_HEADERS == <<
    <<"User-Agent", "Mozilla/5.0 (iPhone; CPU iPhone OS 17_5 like Mac OS X) AppleWebKit/605.1.15 (KHTML, like Gecko) Version/17.5 Mobile/15E148 Safari/604.1">>,
    <<"Accept", "text/html,application/xhtml+xml,application/xml;q=0.9,*/*;q=0.8">>,
    <<"Accept-Language", "zh-CN,zh;q=0.9,en;q=0.8">>,
    <<"Accept-Encoding", "gzip, deflate, br">> >>

\* Each regular expression as the test it performs on the lowercased URL (all
\* carry the i flag): [suffix |-> TRUE] for a pattern anchored with $, and the
\* alternatives the pattern matches.
STREAMING_URL_PATTERNS == <<
    [suffix |-> FALSE, texts |-> {"rtmp://", "rtmps://"}],
    [suffix |-> TRUE,  texts |-> {".flv"}],
    [suffix |-> TRUE,  texts |-> {".m3u8"}],
    [suffix |-> TRUE,  texts |-> {".ts"}],
    [suffix |-> TRUE,  texts |-> {".mp4"}],
    [suffix |-> TRUE,  texts |-> {".webm"}],
    [suffix |-> FALSE, texts |-> {"hls"}],
    [suffix |-> FALSE, texts |-> {"dash"}],
    [suffix |-> FALSE, texts |-> {"stream"}],
    [suffix |-> FALSE, texts |-> {"live"}],
    [suffix |-> FALSE, texts |-> {"broadcast"}] >>

EXCLUDED_HEADERS == <<"cf-", "x-forwarded-", "host">>

-----------------------------------------------------------------------------
(* The worker's functions.                                                 *)

\* pattern.test(url), given the lowercased url (the i flag).
PatternTest(pattern, lowered) ==
    \E t \in pattern.texts :
        IF pattern.suffix THEN EndsWith(lowered, t) ELSE Includes(lowered, t)

isStreamingUrl(url) ==
    LET lowered == ToLowerCase(url)
    IN  \E i \in DOMAIN STREAMING_URL_PATTERNS :
            PatternTest(STREAMING_URL_PATTERNS[i], lowered)

isStreamingMethod(req) ==
    LET got == HeadersGet(req.headers, "content-type")
        contentType == IF Truthy(got) THEN got ELSE ""
    IN  \/ Includes(contentType, "video/")
        \/ Includes(contentType, "application/x-rtmp")
        \/ Includes(contentType, "application/vnd.apple.mpegurl")

\* The test of worker.js:126 with equality in place of startsWith.
IsExcludedHeader_Equality(key) ==
    \E i \in DOMAIN EXCLUDED_HEADERS : ToLowerCase(key) = EXCLUDED_HEADERS[i]

\* EXCLUDED_HEADERS.some(prefix => lowerKey.startsWith(prefix))
IsExcludedHeader(key) ==
    \E i \in DOMAIN EXCLUDED_HEADERS : StartsWith(ToLowerCase(key), EXCLUDED_HEADERS[i])

\* The loop of worker.js:124-129 over the entries of the request's headers
\* still to visit (their names are distinct, so the order does not matter).
RECURSIVE CopyRequestHeaders(_, _, _)
CopyRequestHeaders(acc, reqHeaders, names) ==
    IF names = {} THEN acc
    ELSE LET key == CHOOSE k \in names : TRUE
             next == IF ~IsExcludedHeader(key)
                     THEN HeadersSet(acc, key, reqHeaders[key])
                     ELSE acc
         IN  CopyRequestHeaders(next, reqHeaders, names \ {key})

buildProxyHeaders(req, isStreaming) ==
    LET defaults == HeadersFrom(DEFAULT_HEADERS)
        copied   == CopyRequestHeaders(defaults, req.headers, DOMAIN req.headers)
    IN  IF isStreaming
        THEN HeadersSet(HeadersSet(HeadersSet(copied,
                 "Cache-Control", "no-cache, no-store, must-revalidate"),
                 "Pragma", "no-cache"),
                 "Connection", "keep-alive")
        ELSE copied

\* addCorsHeaders without the Access-Control-Allow-Origin line.
addCorsHeaders_NoOrigin(resp, isStreaming) ==
    LET h1 == HeadersSet(resp.headers, "Access-Control-Allow-Methods",
                         "GET, POST, PUT, DELETE, OPTIONS, HEAD")
        h2 == HeadersSet(h1, "Access-Control-Allow-Headers", "*")
        h3 == HeadersSet(h2, "Access-Control-Expose-Headers", "*")
    IN  [resp EXCEPT !.headers = h3]

addCorsHeaders(resp, isStreaming) ==
    LET h0 == HeadersSet(resp.headers, "Access-Control-Allow-Origin", "*")
        h1 == HeadersSet(h0, "Access-Control-Allow-Methods",
                         "GET, POST, PUT, DELETE, OPTIONS, HEAD")
        h2 == HeadersSet(h1, "Access-Control-Allow-Headers", "*")
        h3 == HeadersSet(h2, "Access-Control-Expose-Headers", "*")
        h4 == IF isStreaming
              THEN HeadersSet(HeadersSet(h3, "Access-Control-Allow-Credentials", "true"),
                              "Access-Control-Max-Age", "86400")
              ELSE h3
    IN  [resp EXCEPT !.headers = h4]

\* handleStreamingResponse without the keep-alive line.
handleStreamingResponse_NoKeepAlive(resp) ==
    LET h1 == HeadersSet(resp.headers, "Cache-Control", "no-cache, no-store, must-revalidate")
        h2 == HeadersSet(h1, "Pragma", "no-cache")
        h3 == HeadersSet(h2, "Expires", "0")
        h5 == IF HeadersHas(resp.headers, "accept-ranges")
              THEN HeadersSet(h3, "Accept-Ranges", HeadersGet(resp.headers, "accept-ranges"))
              ELSE HeadersSet(h3, "Accept-Ranges", "bytes")
    IN  addCorsHeaders(Response(resp.status, h5, resp.body), TRUE)

handleStreamingResponse(resp) ==
    LET h1 == HeadersSet(resp.headers, "Cache-Control", "no-cache, no-store, must-revalidate")
        h2 == HeadersSet(h1, "Pragma", "no-cache")
        h3 == HeadersSet(h2, "Expires", "0")
        h4 == HeadersSet(h3, "Connection", "keep-alive")
        h5 == IF HeadersHas(resp.headers, "accept-ranges")
              THEN HeadersSet(h4, "Accept-Ranges", HeadersGet(resp.headers, "accept-ranges"))
              ELSE HeadersSet(h4, "Accept-Ranges", "bytes")
    IN  addCorsHeaders(Response(resp.status, h5, resp.body), TRUE)

-----------------------------------------------------------------------------
(* What a promise settles with: a Response (kind "response") or an error   *)
(* (kind "rejected").  via records the code path that produced it.         *)

Pending == [kind |-> "pending", via |-> "none", status |-> 0,
            headers |-> EmptyHeaders, body |-> "", error |-> ""]

Fulfilled(via, resp) ==
    [kind |-> "response", via |-> via, status |-> resp.status,
     headers |-> resp.headers, body |-> resp.body, error |-> ""]

Rejected(via, error) ==
    [kind |-> "rejected", via |-> via, status |-> 0,
     headers |-> EmptyHeaders, body |-> "", error |-> error]

REDIRECT_STATUSES == {301, 302, 303, 307, 308}

\* handleResponse with the streaming branch tested before the redirect check.
handleResponse_StreamingFirst(resp, originalUrl, target, isStreaming) ==
    LET location == HeadersGet(resp.headers, "location")
        redirectUrl == ResolveUrl(location, target)
        modifiedLocation ==
            "https://" \o UrlHost(originalUrl) \o "/"
                \o encodeURIComponent(UrlToString(redirectUrl))
        redirectResponse ==
            Response(resp.status, HeadersSet(resp.headers, "Location", modifiedLocation),
                     resp.body)
    IN  IF isStreaming THEN Fulfilled("streaming", handleStreamingResponse(resp))
        ELSE IF resp.status \in REDIRECT_STATUSES /\ Truthy(location) THEN
            IF ~redirectUrl.ok THEN Rejected("redirect", "TypeError")
            ELSE Fulfilled("redirect", addCorsHeaders(redirectResponse, isStreaming))
        ELSE Fulfilled("plain",
                       addCorsHeaders(Response(resp.status, resp.headers, resp.body),
                                      isStreaming))

\* The promise handleResponse returns.  new URL(location, targetUrl) throws a
\* TypeError when location does not parse, which rejects the promise.
handleResponse(resp, originalUrl, target, isStreaming) ==
    LET location == HeadersGet(resp.headers, "location")
        redirectUrl == ResolveUrl(location, target)
        modifiedLocation ==
            "https://" \o UrlHost(originalUrl) \o "/"
                \o encodeURIComponent(UrlToString(redirectUrl))
        redirectResponse ==
            Response(resp.status, HeadersSet(resp.headers, "Location", modifiedLocation),
                     resp.body)
    IN  IF resp.status \in REDIRECT_STATUSES /\ Truthy(location) THEN
            IF ~redirectUrl.ok THEN Rejected("redirect", "TypeError")
            ELSE Fulfilled("redirect", addCorsHeaders(redirectResponse, isStreaming))
        ELSE IF isStreaming THEN Fulfilled("streaming", handleStreamingResponse(resp))
        ELSE Fulfilled("plain",
                       addCorsHeaders(Response(resp.status, resp.headers, resp.body),
                                      isStreaming))

\* getConfigPage answering with text/plain.
getConfigPage_PlainText(hostname) ==
    Response(200, HeadersFrom(<< <<"Content-Type", "text/plain; charset=utf-8">> >>),
             "<!DOCTYPE html> https://" \o hostname \o "/")

\* The page's markup is kept only as far as it depends on hostname; a
\* Response built without a status has status 200.
getConfigPage(hostname) ==
    Response(200, HeadersFrom(<< <<"Content-Type", "text/html; charset=utf-8">> >>),
             "<!DOCTYPE html> https://" \o hostname \o "/")

\* The catch block answering 500.
ProxyErrorResponse_Status500(message) ==
    Response(500, HeadersFrom(<< <<"Content-Type", "text/plain; charset=utf-8">> >>),
             "proxy error: " \o message)

\* The Response of the catch block, worker.js:83-88.  The body's literal prefix
\* is Chinese for "proxy error: ", written here in ASCII.
ProxyErrorResponse(message) ==
    Response(502, HeadersFrom(<< <<"Content-Type", "text/plain; charset=utf-8">> >>),
             "proxy error: " \o message)

-----------------------------------------------------------------------------
(* The requests a caller can send and the answers a target can give.       *)

MaxHeaders == 2       \* headers a caller sends with one request

ServiceHosts == {"proxy.test", "proxy.test:8443"}

Methods == {"GET", "POST"}

Pathnames == {
    "/",                                   \* no target
    "/https%3A%2F%2Forigin.test%2Fa",      \* https://origin.test/a
    "/https://x.test/A.M3U8",              \* a streaming suffix, in capitals
    "/rtmp%3A%2F%2Fx.test%2Flive%2Fk",     \* rtmp://x.test/live/k
    "/%E0%A4%A",                           \* a truncated escape
    "/origin.test%2Fa" }                   \* decodes, but to no absolute URL

CallerHeaderPool == <<
    <<"Cf-Connecting-IP", "203.0.113.7">>,
    <<"X-Forwarded-For", "203.0.113.7">>,
    <<"Host", "proxy.test">>,
    <<"Hostname", "edge-1">>,
    <<"User-Agent", "curl/8.0">>,
    <<"user-agent", "probe">>,
    <<"Content-Type", "video/mp4">>,
    <<"Cache-Control", "max-age=60">> >>

\* The pairs of pool whose index is in chosen, in pool order.
RECURSIVE Pick(_, _)
Pick(pool, chosen) ==
    IF pool = <<>> THEN <<>>
    ELSE Pick(SubSeq(pool, 1, Len(pool) - 1), chosen)
         \o (IF Len(pool) \in chosen THEN <<pool[Len(pool)]>> ELSE <<>>)

CallerHeaderLists ==
    {Pick(CallerHeaderPool, chosen) :
        chosen \in {c \in SUBSET DOMAIN CallerHeaderPool : Cardinality(c) <= MaxHeaders}}

\* An inbound Request; headers holds the raw list, rawHeaders, as Headers.
Requests ==
    {[method |-> m, url |-> "https://" \o host \o path,
      rawHeaders |-> raw, headers |-> HeadersFrom(raw)] :
        m \in Methods, host \in ServiceHosts, path \in Pathnames, raw \in CallerHeaderLists}

TargetStatuses == {200, 302, 308, 404, 502}

\* Null: the target sends no Location.
LocationValues == {Null, "", "/next", "https://other.test/live", "http://"}

OriginHeaderLists == {
    <<>>,
    << <<"Cache-Control", "max-age=60">>,
       <<"Accept-Ranges", "none">>,
       <<"Access-Control-Allow-Origin", "https://origin.test">> >> }

TargetResponses ==
    {Response(st,
              HeadersFrom(own \o (IF loc = Null THEN <<>> ELSE << <<"Location", loc>> >>)),
              "origin-body") :
        st \in TargetStatuses, loc \in LocationValues, own \in OriginHeaderLists}

\* error.message of a failed fetch.
FetchErrorMessages == {"", "getaddrinfo ENOTFOUND"}

NoRequest == [method |-> "", url |-> "", rawHeaders |-> <<>>, headers |-> EmptyHeaders]

NoResponse == Response(0, EmptyHeaders, "")

-----------------------------------------------------------------------------
(* handleRequest, worker.js:48-90, split at its one await.                 *)

Init ==
    /\ pc = "idle"
    /\ request = NoRequest
    /\ targetUrl = ""
    /\ isStreamingRequest = FALSE
    /\ proxyHeaders = EmptyHeaders
    /\ fetchCount = 0
    /\ response = NoResponse
    /\ result = Pending

\* The fetch event delivers req; handleRequest runs up to await fetch(...).
\* decodeURIComponent runs before the try block: its URIError rejects the
\* promise.  new Request(targetUrl) runs inside it: its TypeError, thrown when
\* targetUrl is no absolute URL, is caught.
HandleRequest(req) ==
    LET url       == ParseAbsoluteUrl(req.url)
        decoded   == decodeURIComponent(Substring(UrlPathname(url), 2))
        streaming == isStreamingUrl(decoded.value) \/ isStreamingMethod(req)
    IN  /\ pc = "idle"
        /\ request' = req
        /\ response' = response
        /\ IF ~decoded.ok THEN
               /\ result' = Rejected("decode", "URIError")
               /\ pc' = "done"
               /\ UNCHANGED <<targetUrl, isStreamingRequest, proxyHeaders, fetchCount>>
           ELSE IF ~Truthy(decoded.value) THEN
               /\ targetUrl' = decoded.value
               /\ result' = Fulfilled("config", getConfigPage(UrlHostname(url)))
               /\ pc' = "done"
               /\ UNCHANGED <<isStreamingRequest, proxyHeaders, fetchCount>>
           ELSE
               /\ targetUrl' = decoded.value
               /\ isStreamingRequest' = streaming
               /\ proxyHeaders' = buildProxyHeaders(req, streaming)
               /\ IF ~ParseAbsoluteUrl(decoded.value).ok THEN
                      /\ result' = Fulfilled("catch", ProxyErrorResponse("Invalid URL"))
                      /\ pc' = "done"
                      /\ fetchCount' = fetchCount
                  ELSE
                      /\ fetchCount' = fetchCount + 1
                      /\ pc' = "awaitFetch"
                      /\ result' = result

\* fetch resolves with the target's response; handleRequest returns the
\* promise of handleResponse without awaiting it, so that promise's outcome,
\* a rejection included, is handleRequest's own.
FetchResolves(resp) ==
    /\ pc = "awaitFetch"
    /\ response' = resp
    /\ result' = handleResponse(resp, ParseAbsoluteUrl(request.url), targetUrl,
                                isStreamingRequest)
    /\ pc' = "done"
    /\ UNCHANGED <<request, targetUrl, isStreamingRequest, proxyHeaders, fetchCount>>

\* fetch rejects: the catch block answers.
FetchRejects(message) ==
    /\ pc = "awaitFetch"
    /\ result' = Fulfilled("catch", ProxyErrorResponse(message))
    /\ pc' = "done"
    /\ UNCHANGED <<request, targetUrl, isStreamingRequest, proxyHeaders, fetchCount,
                   response>>

Next ==
    \/ \E req \in Requests : HandleRequest(req)
    \/ \E resp \in TargetResponses : FetchResolves(resp)
    \/ \E message \in FetchErrorMessages : FetchRejects(message)

Spec == Init /\ [][Next]_vars

-----------------------------------------------------------------------------
(* Properties.                                                             *)

Returned == pc = "done" /\ result.kind = "response"

\* fetch resolved: the target answered.
TargetAnswered == pc = "done" /\ response # NoResponse

\* fetch was called and rejected.
TransportFailed == pc = "done" /\ fetchCount >= 1 /\ response = NoResponse

\* The inbound path with its leading slash stripped, percent-decoded.
DecodedPath ==
    decodeURIComponent(Substring(UrlPathname(ParseAbsoluteUrl(request.url)), 2))

IsRedirectStatus == response.status \in REDIRECT_STATUSES

NoCacheKeepAlive ==
    /\ HeadersGet(result.headers, "Cache-Control") = "no-cache, no-store, must-revalidate"
    /\ HeadersGet(result.headers, "Connection") = "keep-alive"

PlainTextType == "text/plain; charset=utf-8"

\* The names the specification lists as never forwarded.
NamedAsExcluded(n) == StartsWith(n, "cf-") \/ StartsWith(n, "x-forwarded-") \/ n = "host"

CorsNames == {"access-control-allow-origin", "access-control-allow-methods",
              "access-control-allow-headers", "access-control-expose-headers",
              "access-control-allow-credentials", "access-control-max-age"}

StreamingShapedNames == {"cache-control", "pragma", "expires", "connection", "accept-ranges"}

\* h and g hold the same value, or both none, under each name of names.
SameOn(h, g, names) ==
    \A n \in names : (n \in DOMAIN h <=> n \in DOMAIN g) /\ (n \in DOMAIN h => h[n] = g[n])

(* C1, as stated: every response handleRequest returns, on every path,     *)
(* carries Access-Control-Allow-Origin: *.                                 *)
C1_EveryResponseAllowsAnyOrigin ==
    Returned => HeadersGet(result.headers, "Access-Control-Allow-Origin") = "*"

(* C1, amended: every response handleRequest returns for an answer of the  *)
(* target (rewritten redirect, streaming, non-streaming) carries           *)
(* Access-Control-Allow-Origin: *; the configuration page and the          *)
(* synthetic 502 carry no Access-Control-Allow-Origin header.              *)
C1_TargetAnswersAllowAnyOrigin ==
    /\ (Returned /\ TargetAnswered) =>
           HeadersGet(result.headers, "Access-Control-Allow-Origin") = "*"
    /\ (Returned /\ ~TargetAnswered) =>
           ~HeadersHas(result.headers, "Access-Control-Allow-Origin")

\* The target sent its own Access-Control-Allow-Origin and the caller got "*".
C1_Witness ==
    /\ Returned /\ TargetAnswered
    /\ HeadersGet(response.headers, "Access-Control-Allow-Origin") = "https://origin.test"
    /\ HeadersGet(result.headers, "Access-Control-Allow-Origin") = "*"

(* C2: a path whose percent-decoding fails is answered with the synthetic  *)
(* 502 (text/plain; charset=utf-8), without an outbound request, and       *)
(* never with an unhandled fault.                                          *)
C2_MalformedEscapeGives502 ==
    (pc = "done" /\ ~DecodedPath.ok) =>
        /\ result.kind = "response"
        /\ result.status = 502
        /\ HeadersGet(result.headers, "Content-Type") = PlainTextType
        /\ fetchCount = 0

(* C3: when the outbound fetch fails, handleRequest returns status 502     *)
(* with a non-empty body and Content-Type text/plain; charset=utf-8, after *)
(* exactly one call of fetch; no request ever calls fetch twice.           *)
C3_TransportFailureGives502Once ==
    /\ fetchCount <= 1
    /\ TransportFailed =>
        /\ result.kind = "response"
        /\ result.status = 502
        /\ result.body # ""
        /\ HeadersGet(result.headers, "Content-Type") = PlainTextType
        /\ fetchCount = 1

\* fetch failed with an empty error message.
C3_Witness ==
    /\ TransportFailed
    /\ targetUrl = "https://origin.test/a"
    /\ result.status = 502
    /\ result.body = "proxy error: "

(* C4: whenever the target answers, handleRequest returns a response with  *)
(* the target's status, produced by the redirect rewriter or the response  *)
(* shaper; it never ends in the synthetic 502 nor in an unhandled fault.   *)
C4_TargetAnswerAlwaysReturned ==
    TargetAnswered =>
        /\ result.kind = "response"
        /\ result.status = response.status
        /\ result.via \in {"redirect", "streaming", "plain"}

(* C5, as stated: for a request whose streaming verdict is true, the       *)
(* returned response always carries Cache-Control: no-cache, no-store,     *)
(* must-revalidate and Connection: keep-alive.                             *)
C5_StreamingAlwaysNoCacheKeepAlive ==
    (Returned /\ isStreamingRequest) => NoCacheKeepAlive

(* C5, amended: for a request whose streaming verdict is true, the         *)
(* returned response carries the two headers whenever the target answered  *)
(* and its answer is not a redirect with a non-empty Location; a rewritten *)
(* redirect and the synthetic 502 do not get them.                         *)
C5_StreamingAnswerNoCacheKeepAlive ==
    (/\ Returned /\ isStreamingRequest /\ TargetAnswered
     /\ ~(IsRedirectStatus /\ Truthy(HeadersGet(response.headers, "Location"))))
        => NoCacheKeepAlive

\* A streaming request whose target sent its own Cache-Control.
C5_Witness ==
    /\ Returned /\ isStreamingRequest /\ TargetAnswered
    /\ response.status = 200
    /\ HeadersGet(response.headers, "Cache-Control") = "max-age=60"
    /\ NoCacheKeepAlive

(* C6: the outbound header set never holds a name that starts with cf- or  *)
(* x-forwarded-, or equals host, whatever case and however many such       *)
(* headers the caller sent.                                                *)
C6_NoExcludedHeaderOutbound ==
    \A n \in DOMAIN proxyHeaders : ~NamedAsExcluded(n)

\* The caller sent Cf-Connecting-IP and X-Forwarded-For, in capitals.
C6_Witness ==
    /\ proxyHeaders # EmptyHeaders
    /\ request.rawHeaders =
           << <<"Cf-Connecting-IP", "203.0.113.7">>, <<"X-Forwarded-For", "203.0.113.7">> >>

(* C7: every caller header whose lowercase name neither starts with cf- or *)
(* x-forwarded- nor equals host is in the outbound set with the caller's   *)
(* value, except that a streaming request carries the forced values under  *)
(* Cache-Control, Pragma and Connection.                                   *)
C7_OtherCallerHeadersForwarded ==
    proxyHeaders # EmptyHeaders =>
        \A n \in DOMAIN request.headers :
            ~NamedAsExcluded(n) =>
                /\ n \in DOMAIN proxyHeaders
                /\ \/ proxyHeaders[n] = request.headers[n]
                   \/ /\ isStreamingRequest
                      /\ n \in {"cache-control", "pragma", "connection"}

(* C8: for a target answer with a redirect status and a Location header,   *)
(* the returned response keeps the status, has Location = https:// + the   *)
(* hostname the caller used + / + the percent-encoding of Location         *)
(* resolved against the target URL, and passes every other target header   *)
(* through, apart from the CORS headers.                                   *)
C8_RedirectLocationRewritten ==
    (/\ TargetAnswered /\ IsRedirectStatus
     /\ HeadersHas(response.headers, "Location")) =>
        /\ result.kind = "response"
        /\ result.status = response.status
        /\ HeadersGet(result.headers, "Location") =
               "https://" \o UrlHostname(ParseAbsoluteUrl(request.url)) \o "/"
                   \o encodeURIComponent(UrlToString(
                          ResolveUrl(HeadersGet(response.headers, "Location"), targetUrl)))
        /\ SameOn(result.headers, response.headers,
                  (DOMAIN result.headers \cup DOMAIN response.headers)
                      \ (CorsNames \cup {"location"}))

(* C9: a path that decodes to the empty string is answered with the        *)
(* configuration page (status 200, an HTML content type) and no outbound   *)
(* request, whatever the method and the headers.                           *)
C9_EmptyPathGivesConfigPage ==
    (pc = "done" /\ DecodedPath.ok /\ DecodedPath.value = "") =>
        /\ result.kind = "response"
        /\ result.status = 200
        /\ StartsWith(HeadersGet(result.headers, "Content-Type"), "text/html")
        /\ fetchCount = 0

\* A POST to / that declares a streaming content type.
C9_Witness ==
    /\ pc = "done"
    /\ DecodedPath.value = ""
    /\ request.method = "POST"
    /\ HeadersGet(request.headers, "Content-Type") = "video/mp4"
    /\ result.status = 200

(* C10, as stated: the redirect path is taken exactly when the status is a *)
(* redirect code and a Location header is present, whatever the verdict;   *)
(* on it no streaming shaping is applied; a redirect code without Location *)
(* goes to the streaming or the non-streaming branch by the verdict.       *)
C10_RedirectIffLocationPresent ==
    TargetAnswered =>
        /\ result.via = "redirect" <=>
               (IsRedirectStatus /\ HeadersHas(response.headers, "Location"))
        /\ (Returned /\ result.via = "redirect") =>
               SameOn(result.headers, response.headers, StreamingShapedNames)
        /\ (IsRedirectStatus /\ ~HeadersHas(response.headers, "Location")) =>
               result.via = IF isStreamingRequest THEN "streaming" ELSE "plain"

(* C10, amended: the redirect path is taken exactly when the status is a   *)
(* redirect code and the Location header is present with a non-empty       *)
(* value, whatever the verdict; on it no streaming shaping is applied; a   *)
(* redirect code whose Location is absent or empty goes to the streaming   *)
(* or the non-streaming branch by the verdict.                             *)
C10_RedirectIffLocationNonEmpty ==
    TargetAnswered =>
        /\ result.via = "redirect" <=>
               (IsRedirectStatus /\ Truthy(HeadersGet(response.headers, "Location")))
        /\ (Returned /\ result.via = "redirect") =>
               SameOn(result.headers, response.headers, StreamingShapedNames)
        /\ (IsRedirectStatus /\ ~Truthy(HeadersGet(response.headers, "Location"))) =>
               result.via = IF isStreamingRequest THEN "streaming" ELSE "plain"

\* A streaming request answered 302 with a Location: the target's own
\* Cache-Control reaches the caller.
C10_Witness ==
    /\ Returned /\ isStreamingRequest
    /\ response.status = 302
    /\ HeadersGet(response.headers, "Location") = "/next"
    /\ result.via = "redirect"
    /\ HeadersGet(result.headers, "Cache-Control") = "max-age=60"
    /\ ~HeadersHas(result.headers, "Connection")

=============================================================================
